---- MODULE Spec2Model ----
(***************************************************************************)
(* A model of the CHIP-8 interpreter: Processor::new, Processor::init_ram  *)
(* and Processor::cycle (src/src/core/processor.rs), the nibble decoding   *)
(* and bounds check of src/src/utils.rs and the keyboard latch written by  *)
(* KeyboardDriver::poll (src/src/external/input.rs).                       *)
(*                                                                         *)
(* Every behaviour starts in the state after construction and init_ram;    *)
(* the only input of a behaviour is the ROM image (and the keys pressed at *)
(* each poll, and the random bytes).  Registers, index register, timers    *)
(* and framebuffer get their values by executing instructions of the ROM.  *)
(***************************************************************************)
EXTENDS Integers, Sequences, FiniteSets, TLC

\* ------------------------------------------------------------------ consts
OP_CODE_BYTES == 2
RAM_BYTES == 4096
REG_COUNT == 16
STACK_SIZE == 16
MAX_ROM_BYTES == 3584
\* consts.rs of the repository snapshot does not hold these; ram.rs and
\* processor.rs use them.
CHIP8_WIDTH == 64
CHIP8_HEIGHT == 32
KEYBOARD_SIZE == 16
FONT_SET_SIZE == 80
\* ram.buffer[PROG_OFFSET..].clone_from_slice(&rom.buffer) needs both slices
\* to have the same length.
PROG_OFFSET == RAM_BYTES - MAX_ROM_BYTES

FONT_SET ==
  << 240, 144, 144, 144, 240,   32,  96,  32,  32, 112,
     240,  16, 240, 128, 240,  240,  16, 240,  16, 240,
     144, 144, 240,  16,  16,  240, 128, 240,  16, 240,
     240, 128, 240, 144, 240,  240,  16,  32,  64,  64,
     240, 144, 240, 144, 240,  240, 144, 240,  16, 240,
     240, 144, 240, 144, 144,  224, 144, 224, 144, 224,
     240, 128, 128, 128, 240,  224, 144, 144, 144, 224,
     240, 128, 240, 128, 240,  240, 128, 240, 128, 128 >>

U8 == 256
U16 == 65536

\* ------------------------------------------------------------ bit helpers
Bit(v, k) == (v \div (2 ^ k)) % 2

\* a & b, a | b, a ^ b on 8-bit values, bit by bit
And8(a, b) ==
  LET f[k \in 0..8] == IF k = 8 THEN 0
                       ELSE (2 ^ k) * (Bit(a, k) * Bit(b, k)) + f[k + 1]
  IN f[0]

Or8(a, b) ==
  LET f[k \in 0..8] ==
        IF k = 8 THEN 0
        ELSE (2 ^ k) * (IF Bit(a, k) + Bit(b, k) > 0 THEN 1 ELSE 0) + f[k + 1]
  IN f[0]

Xor8(a, b) ==
  LET f[k \in 0..8] == IF k = 8 THEN 0
                       ELSE (2 ^ k) * ((Bit(a, k) + Bit(b, k)) % 2) + f[k + 1]
  IN f[0]

wrapping_add8(a, b) == (a + b) % U8
wrapping_sub8(a, b) == (a - b + U8) % U8
wrapping_add16(a, b) == (a + b) % U16

\* ------------------------------------------------------------------ utils
nibble_split(b0, b1) ==
  << And8(b0, 240) \div 16, And8(b0, 15), And8(b1, 240) \div 16, And8(b1, 15) >>

bounds_check(x, y, width, height) == x < width /\ y < height

\* ------------------------------------------------------------ the machine
\* The fields of Processor, as one record m:
\*   stack, registers, idx_register, pc, stack_pointer, delay_timer,
\*   sound_timer, ram (ram.buffer), vram (display_buffer.buffer)
\* The keyboard latch (keyboard_buffer.buffer) is passed beside it: cycle
\* copies it at line 60 and never writes it.

PANIC == -1

\* a + b on u16 with plain `+`: a panic when the build checks overflow
\* (debug profile), the wrapped value otherwise (release profile).
add16(a, b, oc) ==
  IF a + b >= U16 THEN (IF oc THEN PANIC ELSE (a + b) % U16) ELSE a + b

\* a * b on u8 with plain `*`
mul8(a, b, oc) ==
  IF a * b >= U8 THEN (IF oc THEN PANIC ELSE (a * b) % U8) ELSE a * b

\* a - b on u8 with plain `-`
sub8(a, b, oc) ==
  IF a - b < 0 THEN (IF oc THEN PANIC ELSE (a - b + U8) % U8) ELSE a - b

\* buffer[start..end]: Rust panics unless start <= end <= len
slice_ok(start, end, len) == start <= end /\ end <= len

Continue(m) == [m |-> m, status |-> "Continue"]
RedrawScreen(m) == [m |-> m, status |-> "RedrawScreen"]
Waiting(m) == [m |-> m, status |-> "Waiting"]
Panicked(m) == [m |-> m, status |-> "Panic"]

\* (variant: the decrement has no guard and wraps at 0)
dec_timers_wrapping(m) ==
  [m EXCEPT !.delay_timer = wrapping_sub8(@, 1),
            !.sound_timer = wrapping_sub8(@, 1)]

\* lines 79-84
dec_timers(m) ==
  [m EXCEPT !.delay_timer = IF @ > 0 THEN @ - 1 ELSE @,
            !.sound_timer = IF @ > 0 THEN @ - 1 ELSE @]

\* lines 69-74: the first i in 0..KEYBOARD_SIZE with keyboard[i] == 1
\* (variant: the scan keeps the last match instead of breaking at the first)
first_key_no_break(keyboard) ==
  CHOOSE i \in 0..(KEYBOARD_SIZE - 1) :
    /\ keyboard[i] = 1
    /\ \A j \in 0..(KEYBOARD_SIZE - 1) : keyboard[j] = 1 => j <= i

first_key(keyboard) ==
  CHOOSE i \in 0..(KEYBOARD_SIZE - 1) :
    /\ keyboard[i] = 1
    /\ \A j \in 0..(i - 1) : keyboard[j] # 1

\* (variant: the timers tick before the key-wait arm is matched)
op_fx0a_ticking(m, x, keyboard) ==
  IF \A i \in 0..(KEYBOARD_SIZE - 1) : keyboard[i] = 0
  THEN Waiting(dec_timers([m EXCEPT !.pc = @ - OP_CODE_BYTES]))
  ELSE IF \E i \in 0..(KEYBOARD_SIZE - 1) : keyboard[i] = 1
       THEN Continue([m EXCEPT !.registers[x] = first_key(keyboard)])
       ELSE Continue(m)

\* lines 64-77; m.pc is already advanced
op_fx0a(m, x, keyboard) ==
  IF \A i \in 0..(KEYBOARD_SIZE - 1) : keyboard[i] = 0
  THEN Waiting([m EXCEPT !.pc = @ - OP_CODE_BYTES])
  ELSE IF \E i \in 0..(KEYBOARD_SIZE - 1) : keyboard[i] = 1
       THEN Continue([m EXCEPT !.registers[x] = first_key(keyboard)])
       ELSE Continue(m)

\* (variant: the clear arm falls through to the final Continue)
op_00e0_fallthrough(m) ==
  Continue([m EXCEPT !.vram =
     [r \in 0..(CHIP8_HEIGHT - 1) |-> [c \in 0..(CHIP8_WIDTH - 1) |-> 0]]])

\* lines 90-98
op_00e0(m) ==
  RedrawScreen([m EXCEPT !.vram =
     [r \in 0..(CHIP8_HEIGHT - 1) |-> [c \in 0..(CHIP8_WIDTH - 1) |-> 0]]])

\* (variant: least significant bit leftmost)
should_flip_lsb_first(curr_sprite_val, shift_pos) ==
  And8(2 ^ shift_pos, curr_sprite_val) \div (2 ^ shift_pos)

\* lines 118-119: mask = 1 << (7 - shift_pos);
\* should_flip = (mask & curr_sprite_val) >> (7 - shift_pos)
should_flip(curr_sprite_val, shift_pos) ==
  And8(2 ^ (7 - shift_pos), curr_sprite_val) \div (2 ^ (7 - shift_pos))

\* (variant: the pixel is set instead of toggled)
flip_cell_or(cell) == Or8(cell, 1)

\* (variant: the pixel bit is added to the cell)
flip_cell_sum(cell) == cell + 1

\* line 125: vram[..][..] ^= 1
flip_cell(cell) == Xor8(cell, 1)

\* (variant: a pixel past the right edge wraps to column 0 of its row)
draw_row_wrapping(m, x_coord, y_coord, i, curr_sprite_val) ==
  LET flips == { shift_pos \in 0..7 :
                   /\ y_coord + i < CHIP8_HEIGHT
                   /\ should_flip(curr_sprite_val, shift_pos) = 1 }
      cols == { (x_coord + s) % CHIP8_WIDTH : s \in flips }
  IN IF flips = {} THEN m
     ELSE [m EXCEPT
             !.registers[15] =
                IF \E c \in cols : m.vram[y_coord + i][c] = 1 THEN 1 ELSE @,
             !.vram[y_coord + i] =
                [c \in 0..(CHIP8_WIDTH - 1) |->
                   IF c \in cols THEN flip_cell(@[c]) ELSE @[c]]]

\* lines 111-130: the bits of one sprite row, left to right.  The loop
\* breaks at the first position bounds_check rejects, so bit shift_pos is
\* reached only if no position up to it was rejected; the bits reached are
\* in different cells, so their flips do not depend on each other.
draw_row(m, x_coord, y_coord, i, curr_sprite_val) ==
  LET reached(shift_pos) ==
        \A s \in 0..shift_pos :
           bounds_check(x_coord + s, y_coord + i, CHIP8_WIDTH, CHIP8_HEIGHT)
      flips == { shift_pos \in 0..7 :
                   reached(shift_pos) /\ should_flip(curr_sprite_val, shift_pos) = 1 }
  IN IF flips = {} THEN m
     ELSE [m EXCEPT
             !.registers[15] =
                IF \E s \in flips : m.vram[y_coord + i][x_coord + s] = 1
                THEN 1 ELSE @,
             !.vram[y_coord + i] =
                [c \in 0..(CHIP8_WIDTH - 1) |->
                   IF (c - x_coord) \in flips THEN flip_cell(@[c]) ELSE @[c]]]

\* lines 109-131: the rows i in 0..n of the sprite at ram[idx ..].  Row i
\* writes only framebuffer row y_coord + i and may set registers[0xF], and
\* reads neither of what another row writes, so each row is applied to the
\* machine as the draw found it and the results are put together.
draw_rows(m, x_coord, y_coord, n) ==
  LET row(i) == draw_row(m, x_coord, y_coord, i, m.ram[m.idx_register + i])
  IN [m EXCEPT
        !.registers[15] =
           IF \E i \in 0..(n - 1) : row(i).registers[15] = 1 THEN 1 ELSE @,
        !.vram = [r \in 0..(CHIP8_HEIGHT - 1) |->
                    IF (r - y_coord) \in 0..(n - 1)
                    THEN row(r - y_coord).vram[r]
                    ELSE m.vram[r]]]

\* lines 101-133
op_dxyn(m, x, y, n, oc) ==
  LET x_coord == m.registers[x] % CHIP8_WIDTH
      y_coord == m.registers[y] % CHIP8_HEIGHT
      end == add16(m.idx_register, n, oc)
  IN IF end = PANIC \/ ~slice_ok(m.idx_register, end, RAM_BYTES)
     THEN Panicked(m)
     ELSE RedrawScreen(draw_rows(m, x_coord, y_coord, n))

\* (variant: the offset is Vx, x the high nibble of nnn, instead of V0)
op_bnnn_vx(m, nnn) ==
  Continue([m EXCEPT !.pc = wrapping_add16(nnn, m.registers[nnn \div 256])])

\* lines 136-141
op_1nnn(m, nnn) == Continue([m EXCEPT !.pc = nnn])
op_bnnn(m, nnn) ==
  Continue([m EXCEPT !.pc = wrapping_add16(nnn, m.registers[0])])

\* (variant: the decrement wraps and the slot index is masked to the stack)
op_00ee_masked(m, oc) ==
  LET sp == wrapping_sub8(m.stack_pointer, 1)
  IN Continue([m EXCEPT !.stack_pointer = sp,
                        !.pc = m.stack[sp % STACK_SIZE]])

\* lines 144-147
op_00ee(m, oc) ==
  LET sp == sub8(m.stack_pointer, 1, oc)
  IN IF sp = PANIC THEN Panicked(m)
     ELSE IF sp >= STACK_SIZE THEN Panicked([m EXCEPT !.stack_pointer = sp])
     ELSE Continue([m EXCEPT !.stack_pointer = sp, !.pc = m.stack[sp]])

\* (variant: the address of the call itself is stored)
op_2nnn_stale_pc(m, nnn) ==
  IF m.stack_pointer >= STACK_SIZE THEN Panicked(m)
  ELSE Continue([m EXCEPT !.stack[m.stack_pointer] = m.pc - OP_CODE_BYTES,
                          !.stack_pointer = @ + 1,
                          !.pc = nnn])

\* lines 148-152
op_2nnn(m, nnn) ==
  IF m.stack_pointer >= STACK_SIZE THEN Panicked(m)
  ELSE Continue([m EXCEPT !.stack[m.stack_pointer] = m.pc,
                          !.stack_pointer = @ + 1,
                          !.pc = nnn])

\* (variant: the condition is inverted)
skip_unless(m, cond) ==
  Continue(IF ~cond THEN [m EXCEPT !.pc = @ + OP_CODE_BYTES] ELSE m)

\* lines 155-180: if cond { self.pc += OP_CODE_BYTES }
skip_if(m, cond) ==
  Continue(IF cond THEN [m EXCEPT !.pc = @ + OP_CODE_BYTES] ELSE m)

op_3xnn(m, x, nn) == skip_if(m, m.registers[x] = nn)
op_4xnn(m, x, nn) == skip_if(m, m.registers[x] # nn)
op_5xy0(m, x, y) == skip_if(m, m.registers[x] = m.registers[y])
op_9xy0(m, x, y) == skip_if(m, m.registers[x] # m.registers[y])

\* lines 183-191
op_6xnn(m, x, nn) == Continue([m EXCEPT !.registers[x] = nn])
op_8xy0(m, x, y) == Continue([m EXCEPT !.registers[x] = m.registers[y]])
op_annn(m, nnn) == Continue([m EXCEPT !.idx_register = nnn])

\* (variant: the addition reports its carry in VF, as 8xy4 does)
op_7xnn_with_carry(m, x, nn) ==
  Continue([m EXCEPT !.registers[15] = IF m.registers[x] + nn > 255 THEN 1 ELSE 0,
                     !.registers[x] = wrapping_add8(m.registers[x], nn)])

\* lines 194-196
op_7xnn(m, x, nn) ==
  Continue([m EXCEPT !.registers[x] = wrapping_add8(@, nn)])

\* lines 197-224: the flag is stored in registers[0xF] first, the result is
\* then computed from the registers as they are after that store
set_flag(m, cond) == [m EXCEPT !.registers[15] = IF cond THEN 1 ELSE 0]

op_8xy4(m, x, y) ==
  LET m1 == set_flag(m, m.registers[x] + m.registers[y] > 255)
  IN Continue([m1 EXCEPT !.registers[x] =
                  wrapping_add8(m1.registers[x], m1.registers[y])])

op_8xy5(m, x, y) ==
  LET m1 == set_flag(m, m.registers[x] >= m.registers[y])
  IN Continue([m1 EXCEPT !.registers[x] =
                  wrapping_sub8(m1.registers[x], m1.registers[y])])

op_8xy7(m, x, y) ==
  LET m1 == set_flag(m, m.registers[y] >= m.registers[x])
  IN Continue([m1 EXCEPT !.registers[x] =
                  wrapping_sub8(m1.registers[y], m1.registers[x])])

\* lines 227-235
op_8xy1(m, x, y) ==
  Continue([m EXCEPT !.registers[x] = Or8(@, m.registers[y])])
op_8xy2(m, x, y) ==
  Continue([m EXCEPT !.registers[x] = And8(@, m.registers[y])])
op_8xy3(m, x, y) ==
  Continue([m EXCEPT !.registers[x] = Xor8(@, m.registers[y])])

\* lines 238-245
op_8xy6(m, x) ==
  LET m1 == [m EXCEPT !.registers[15] = And8(m.registers[x], 1)]
  IN Continue([m1 EXCEPT !.registers[x] = m1.registers[x] \div 2])

op_8xye(m, x) ==
  LET m1 == [m EXCEPT !.registers[15] = And8(m.registers[x], 128) \div 128]
  IN Continue([m1 EXCEPT !.registers[x] = (m1.registers[x] * 2) % U8])

\* lines 248-251
op_cxnn(m, x, nn, rand_val) ==
  Continue([m EXCEPT !.registers[x] = And8(nn, rand_val)])

\* (variant: the latch is indexed by the register number, not its value)
op_ex9e_by_x(m, x, keyboard) == skip_if(m, keyboard[x] = 1)

\* lines 254-263: keyboard[registers[x] as usize] is an index of a 16-entry
\* array
op_ex9e(m, x, keyboard) ==
  IF m.registers[x] >= KEYBOARD_SIZE THEN Panicked(m)
  ELSE skip_if(m, keyboard[m.registers[x]] = 1)

op_exa1(m, x, keyboard) ==
  IF m.registers[x] >= KEYBOARD_SIZE THEN Panicked(m)
  ELSE skip_if(m, keyboard[m.registers[x]] # 1)

\* lines 266-274
op_fx07(m, x) == Continue([m EXCEPT !.registers[x] = m.delay_timer])
op_fx15(m, x) == Continue([m EXCEPT !.delay_timer = m.registers[x]])
op_fx18(m, x) == Continue([m EXCEPT !.sound_timer = m.registers[x]])

\* (variant: VF reports that the sum left the 12-bit address range)
op_fx1e_with_flag(m, x) ==
  Continue([m EXCEPT !.idx_register = wrapping_add16(@, m.registers[x]),
                     !.registers[15] =
                        IF m.idx_register + m.registers[x] > 4095 THEN 1 ELSE 0])

\* lines 277-281
op_fx1e(m, x) ==
  Continue([m EXCEPT !.idx_register = wrapping_add16(@, m.registers[x])])

\* lines 284-286: the product is formed in u8 and widened afterwards
op_fx29(m, x, oc) ==
  LET p == mul8(m.registers[x], 5, oc)
  IN IF p = PANIC THEN Panicked(m)
     ELSE Continue([m EXCEPT !.idx_register = p])

\* ram_ref[a] = v, in sequence, up to the first index outside the buffer
RECURSIVE store_bytes(_, _, _, _)
store_bytes(m, addr, vals, oc) ==
  IF vals = << >> THEN Continue(m)
  ELSE IF addr = PANIC \/ addr >= RAM_BYTES THEN Panicked(m)
  ELSE store_bytes([m EXCEPT !.ram[addr] = Head(vals)],
                   add16(addr, 1, oc), Tail(vals), oc)

\* (variant: the tens digit is taken without removing the hundreds)
op_fx33_tens_of_all(m, x, oc) ==
  LET num == m.registers[x]
  IN store_bytes(m, m.idx_register,
                 << num \div 100, num \div 10, num % 10 >>, oc)

\* lines 289-298
op_fx33(m, x, oc) ==
  LET num == m.registers[x]
      first_digit == num \div 100
      second_digit == (num % 100) \div 10
      third_digit == num % 10
  IN store_bytes(m, m.idx_register,
                 << first_digit, second_digit, third_digit >>, oc)

\* (variant: the loop runs over 0..x, leaving Vx itself out)
op_fx55_exclusive(m, x, oc) ==
  store_bytes(m, m.idx_register, [i \in 1..x |-> m.registers[i - 1]], oc)

\* (variant: an address past the end of RAM wraps to its start)
op_fx55_wrapping(m, x, oc) ==
  LET at(i) == (m.idx_register + i) % RAM_BYTES
  IN Continue([m EXCEPT !.ram =
       [a \in 0..(RAM_BYTES - 1) |->
          IF \E i \in 0..x : at(i) = a
          THEN m.registers[CHOOSE i \in 0..x : at(i) = a]
          ELSE m.ram[a]]])

\* lines 301-306
op_fx55(m, x, oc) ==
  store_bytes(m, m.idx_register, [i \in 1..(x + 1) |-> m.registers[i - 1]], oc)

\* lines 307-312
RECURSIVE load_regs(_, _, _, _)
load_regs(m, x, i, oc) ==
  IF i >= x + 1 THEN Continue(m)
  ELSE LET addr == add16(m.idx_register, i, oc)
       IN IF addr = PANIC \/ addr >= RAM_BYTES THEN Panicked(m)
          ELSE load_regs([m EXCEPT !.registers[i] = m.ram[addr]], x, i + 1, oc)

\* (variant: the copy goes from the registers to RAM, as in Fx55)
op_fx65_stores(m, x, oc) == op_fx55(m, x, oc)

op_fx65(m, x, oc) == load_regs(m, x, 0, oc)

\* (variant: a word that no arm decodes is skipped as a no-op)
execute_lenient(m, opcode, x, y, n, keyboard, rand_val, oc) ==
  LET nn == y * 16 + n
      nnn == x * 256 + y * 16 + n
  IN CASE opcode = 0 /\ x = 0 /\ y = 14 /\ n = 0 -> op_00e0(m)
       [] opcode = 13 -> op_dxyn(m, x, y, n, oc)
       [] opcode = 1 -> op_1nnn(m, nnn)
       [] opcode = 11 -> op_bnnn(m, nnn)
       [] opcode = 0 /\ x = 0 /\ y = 14 /\ n = 14 -> op_00ee(m, oc)
       [] opcode = 2 -> op_2nnn(m, nnn)
       [] opcode = 3 -> op_3xnn(m, x, nn)
       [] opcode = 4 -> op_4xnn(m, x, nn)
       [] opcode = 5 /\ n = 0 -> op_5xy0(m, x, y)
       [] opcode = 9 /\ n = 0 -> op_9xy0(m, x, y)
       [] opcode = 6 -> op_6xnn(m, x, nn)
       [] opcode = 8 /\ n = 0 -> op_8xy0(m, x, y)
       [] opcode = 10 -> op_annn(m, nnn)
       [] opcode = 7 -> op_7xnn(m, x, nn)
       [] opcode = 8 /\ n = 4 -> op_8xy4(m, x, y)
       [] opcode = 8 /\ n = 5 -> op_8xy5(m, x, y)
       [] opcode = 8 /\ n = 7 -> op_8xy7(m, x, y)
       [] opcode = 8 /\ n = 1 -> op_8xy1(m, x, y)
       [] opcode = 8 /\ n = 2 -> op_8xy2(m, x, y)
       [] opcode = 8 /\ n = 3 -> op_8xy3(m, x, y)
       [] opcode = 8 /\ n = 6 -> op_8xy6(m, x)
       [] opcode = 8 /\ n = 14 -> op_8xye(m, x)
       [] opcode = 12 -> op_cxnn(m, x, nn, rand_val)
       [] opcode = 14 /\ y = 9 /\ n = 14 -> op_ex9e(m, x, keyboard)
       [] opcode = 14 /\ y = 10 /\ n = 1 -> op_exa1(m, x, keyboard)
       [] opcode = 15 /\ y = 0 /\ n = 7 -> op_fx07(m, x)
       [] opcode = 15 /\ y = 1 /\ n = 5 -> op_fx15(m, x)
       [] opcode = 15 /\ y = 1 /\ n = 8 -> op_fx18(m, x)
       [] opcode = 15 /\ y = 1 /\ n = 14 -> op_fx1e(m, x)
       [] opcode = 15 /\ y = 2 /\ n = 9 -> op_fx29(m, x, oc)
       [] opcode = 15 /\ y = 3 /\ n = 3 -> op_fx33(m, x, oc)
       [] opcode = 15 /\ y = 5 /\ n = 5 -> op_fx55(m, x, oc)
       [] opcode = 15 /\ y = 6 /\ n = 5 -> op_fx65(m, x, oc)
       [] OTHER -> Continue(m)

\* lines 88-324: the second match of cycle, arms in source order
execute(m, opcode, x, y, n, keyboard, rand_val, oc) ==
  LET nn == y * 16 + n
      nnn == x * 256 + y * 16 + n
  IN CASE opcode = 0 /\ x = 0 /\ y = 14 /\ n = 0 -> op_00e0(m)
       [] opcode = 13 -> op_dxyn(m, x, y, n, oc)
       [] opcode = 1 -> op_1nnn(m, nnn)
       [] opcode = 11 -> op_bnnn(m, nnn)
       [] opcode = 0 /\ x = 0 /\ y = 14 /\ n = 14 -> op_00ee(m, oc)
       [] opcode = 2 -> op_2nnn(m, nnn)
       [] opcode = 3 -> op_3xnn(m, x, nn)
       [] opcode = 4 -> op_4xnn(m, x, nn)
       [] opcode = 5 /\ n = 0 -> op_5xy0(m, x, y)
       [] opcode = 9 /\ n = 0 -> op_9xy0(m, x, y)
       [] opcode = 6 -> op_6xnn(m, x, nn)
       [] opcode = 8 /\ n = 0 -> op_8xy0(m, x, y)
       [] opcode = 10 -> op_annn(m, nnn)
       [] opcode = 7 -> op_7xnn(m, x, nn)
       [] opcode = 8 /\ n = 4 -> op_8xy4(m, x, y)
       [] opcode = 8 /\ n = 5 -> op_8xy5(m, x, y)
       [] opcode = 8 /\ n = 7 -> op_8xy7(m, x, y)
       [] opcode = 8 /\ n = 1 -> op_8xy1(m, x, y)
       [] opcode = 8 /\ n = 2 -> op_8xy2(m, x, y)
       [] opcode = 8 /\ n = 3 -> op_8xy3(m, x, y)
       [] opcode = 8 /\ n = 6 -> op_8xy6(m, x)
       [] opcode = 8 /\ n = 14 -> op_8xye(m, x)
       [] opcode = 12 -> op_cxnn(m, x, nn, rand_val)
       [] opcode = 14 /\ y = 9 /\ n = 14 -> op_ex9e(m, x, keyboard)
       [] opcode = 14 /\ y = 10 /\ n = 1 -> op_exa1(m, x, keyboard)
       [] opcode = 15 /\ y = 0 /\ n = 7 -> op_fx07(m, x)
       [] opcode = 15 /\ y = 1 /\ n = 5 -> op_fx15(m, x)
       [] opcode = 15 /\ y = 1 /\ n = 8 -> op_fx18(m, x)
       [] opcode = 15 /\ y = 1 /\ n = 14 -> op_fx1e(m, x)
       [] opcode = 15 /\ y = 2 /\ n = 9 -> op_fx29(m, x, oc)
       [] opcode = 15 /\ y = 3 /\ n = 3 -> op_fx33(m, x, oc)
       [] opcode = 15 /\ y = 5 /\ n = 5 -> op_fx55(m, x, oc)
       [] opcode = 15 /\ y = 6 /\ n = 5 -> op_fx65(m, x, oc)
       [] OTHER -> Panicked(m)

\* lines 51-326: one call of Processor::cycle on machine m.  keyboard is the
\* latch, rand_val the byte the generator yields, oc whether the build
\* checks arithmetic overflow.
cycle(m, keyboard, rand_val, oc) ==
  LET end == add16(m.pc, OP_CODE_BYTES, oc)
  IN IF end = PANIC \/ ~slice_ok(m.pc, end, RAM_BYTES) THEN Panicked(m)
     ELSE LET instr_nibbles == nibble_split(m.ram[m.pc], m.ram[m.pc + 1])
              opcode == instr_nibbles[1]
              x == instr_nibbles[2]
              y == instr_nibbles[3]
              n == instr_nibbles[4]
              m1 == [m EXCEPT !.pc = @ + OP_CODE_BYTES]
          IN IF opcode = 15 /\ y = 0 /\ n = 10
             THEN op_fx0a(m1, x, keyboard)
             ELSE execute(dec_timers(m1), opcode, x, y, n,
                          keyboard, rand_val, oc)

\* ------------------------------------------------------------------ state
VARIABLES
  stack,            \* Processor.stack: [u16; STACK_SIZE]
  registers,        \* Processor.registers: [u8; REG_COUNT]
  idx_register,     \* Processor.idx_register: u16
  pc,               \* Processor.pc: u16
  stack_pointer,    \* Processor.stack_pointer: u8
  delay_timer,      \* Processor.delay_timer: u8
  sound_timer,      \* Processor.sound_timer: u8
  ram,              \* Processor.ram.buffer: [u8; RAM_BYTES]
  display_buffer,   \* DisplayBuffer.buffer: [[u8; CHIP8_WIDTH]; CHIP8_HEIGHT]
  keyboard_buffer,  \* KeyboardBuffer.buffer: [u8; KEYBOARD_SIZE]
  overflow_checks,  \* whether the build panics on arithmetic overflow
  quit,             \* main has returned: Rom::new or poll returned Err
  rom_len,          \* the length in bytes of the ROM file main was given
  last,             \* the last call of cycle: the registers, counters
                    \* and latch it started from, whether the framebuffer
                    \* was all zero then, the instruction it fetched, its
                    \* result, and for a return the call it returns from
  last2,            \* the call of cycle before that one (without the latch)
  calls,            \* the calls not yet returned from: where each was
                    \* fetched and the stack pointer it found
  audio_sound_timer,\* AudioDriver.sound_timer: the cell the audio driver holds
  speaker,          \* AudioDriver.speaker: "playing" or "paused"
  polled            \* what the last poll was given: the keycodes held down,
                    \* or {"Quit"} when a Quit event was waiting

vars == << stack, registers, idx_register, pc, stack_pointer, delay_timer,
           sound_timer, ram, display_buffer, keyboard_buffer,
           overflow_checks, quit, rom_len, last, last2, calls,
           audio_sound_timer, speaker, polled >>

machine ==
  [ stack |-> stack, registers |-> registers, idx_register |-> idx_register,
    pc |-> pc, stack_pointer |-> stack_pointer, delay_timer |-> delay_timer,
    sound_timer |-> sound_timer, ram |-> ram, vram |-> display_buffer ]

NoMatch == [ at |-> -1, sp |-> -1 ]
NoCall ==
  [ status |-> "NoCall", instr |-> << >>, pc |-> 0, registers |-> << >>,
    idx_register |-> 0, stack_pointer |-> 0, delay_timer |-> 0,
    sound_timer |-> 0, keyboard |-> << >>, vram_clear |-> TRUE,
    call |-> NoMatch ]

\* the bytes of a program given as 16-bit instruction words
to_bytes(words) ==
  [j \in 1..(2 * Len(words)) |->
     IF j % 2 = 1 THEN words[(j + 1) \div 2] \div 256
     ELSE words[j \div 2] % 256]

W(opcode, x, y, n) == opcode * 4096 + x * 256 + y * 16 + n

\* Rom::default and Rom::new: the image, zero-filled to MAX_ROM_BYTES
rom_buffer(image) ==
  [i \in 0..(MAX_ROM_BYTES - 1) |-> IF i < Len(image) THEN image[i + 1] ELSE 0]

\* (variant: the font atlas is copied to 0x50 instead of 0)
init_ram_fonts_at_0x50(rom, fonts) ==
  [a \in 0..(RAM_BYTES - 1) |->
     IF a >= PROG_OFFSET THEN rom[a - PROG_OFFSET]
     ELSE IF a >= 80 /\ a < 80 + FONT_SET_SIZE THEN fonts[a - 80 + 1]
     ELSE 0]

\* Ram::default, then Processor::init_ram
init_ram(rom, fonts) ==
  [a \in 0..(RAM_BYTES - 1) |->
     IF a >= PROG_OFFSET THEN rom[a - PROG_OFFSET]
     ELSE IF a < FONT_SET_SIZE THEN fonts[a + 1]
     ELSE 0]

\* rom.rs line 26: file.read(&mut data.buffer) fills at most the buffer and
\* returns the number of bytes it read
read_len(bytes) ==
  IF Len(bytes) < MAX_ROM_BYTES THEN Len(bytes) ELSE MAX_ROM_BYTES

\* rom.rs lines 20-34: Rom::new on a file that can or cannot be opened and
\* holds the given bytes
Rom_new(readable, bytes) ==
  IF ~readable THEN [ok |-> FALSE, buffer |-> << >>]
  ELSE LET status == read_len(bytes)
       IN IF status <= MAX_ROM_BYTES
          THEN [ok |-> TRUE, buffer |-> rom_buffer(bytes)]
          ELSE [ok |-> FALSE, buffer |-> << >>]

\* main lines 17-37: Rom::new on the file; on Err main returns at once,
\* otherwise Processor::new followed by init_ram
InitLoad(files) ==
  /\ \E file \in files :
       LET prog == Rom_new(file.readable, file.bytes)
       IN /\ rom_len = Len(file.bytes)
          /\ quit = ~prog.ok
          /\ ram = IF prog.ok THEN init_ram(prog.buffer, FONT_SET)
                   ELSE [a \in 0..(RAM_BYTES - 1) |-> 0]
  /\ stack = [i \in 0..(STACK_SIZE - 1) |-> 0]
  /\ registers = [i \in 0..(REG_COUNT - 1) |-> 0]
  /\ idx_register = 0
  /\ pc = 512
  /\ stack_pointer = 0
  /\ delay_timer = 0
  /\ sound_timer = 0
  /\ display_buffer =
       [r \in 0..(CHIP8_HEIGHT - 1) |-> [c \in 0..(CHIP8_WIDTH - 1) |-> 0]]
  /\ keyboard_buffer = [i \in 0..(KEYBOARD_SIZE - 1) |-> 0]
  /\ overflow_checks \in BOOLEAN
  /\ last = NoCall
  /\ last2 = NoCall
  /\ calls = << >>
  /\ audio_sound_timer = 0
  /\ speaker = "paused"
  /\ polled = {}

\* the same for a readable file holding one of the images
InitWith(images) ==
  InitLoad({ [readable |-> TRUE, bytes |-> image] : image \in images })

vram_clear ==
  \A r \in 0..(CHIP8_HEIGHT - 1) : \A c \in 0..(CHIP8_WIDTH - 1) :
     display_buffer[r][c] = 0

\* the instruction at pc, or << >> when the fetch is out of range
fetched(m) ==
  IF m.pc + OP_CODE_BYTES <= RAM_BYTES
  THEN nibble_split(m.ram[m.pc], m.ram[m.pc + 1])
  ELSE << >>

is_cxnn(m) == fetched(m) # << >> /\ fetched(m)[1] = 12

\* the bytes rng.gen() can yield
RandVals == 0..255

\* ---------------------------------------------------------------- actions
\* output.rs lines 39-70: DisplayDriver::draw paints every cell that is 0 or
\* 1 and returns Err at the first cell that is neither
draw(buffer) ==
  IF \A r \in 0..(CHIP8_HEIGHT - 1) : \A c \in 0..(CHIP8_WIDTH - 1) :
        buffer[r][c] \in {0, 1}
  THEN "Ok" ELSE "Err"

\* main.rs lines 44-59 with the latch as poll left it: a call of cycle, a
\* panic if it returns None, and otherwise the speaker switched by the
\* audio driver's cell and, on RedrawScreen, the framebuffer drawn, an Err
\* of which main returns
CycleOn(buffer) ==
  /\ \E rand_val \in (IF is_cxnn(machine) THEN RandVals ELSE {0}) :
       LET r == cycle(machine, buffer, rand_val, overflow_checks)
           f == fetched(machine)
           is_call == f # << >> /\ f[1] = 2 /\ r.status = "Continue"
           is_ret == f = << 0, 0, 14, 14 >> /\ r.status = "Continue"
       IN /\ stack' = r.m.stack
          /\ registers' = r.m.registers
          /\ idx_register' = r.m.idx_register
          /\ pc' = r.m.pc
          /\ stack_pointer' = r.m.stack_pointer
          /\ delay_timer' = r.m.delay_timer
          /\ sound_timer' = r.m.sound_timer
          /\ ram' = r.m.ram
          /\ display_buffer' = r.m.vram
          /\ last' = [ status |-> r.status, instr |-> f, pc |-> pc,
                       registers |-> registers,
                       idx_register |-> idx_register,
                       stack_pointer |-> stack_pointer,
                       delay_timer |-> delay_timer,
                       sound_timer |-> sound_timer,
                       keyboard |-> buffer,
                       vram_clear |-> vram_clear,
                       call |-> IF is_ret /\ calls # << >>
                                THEN calls[Len(calls)] ELSE NoMatch ]
          /\ last2' = [last EXCEPT !.keyboard = << >>]
          /\ quit' = (r.status = "RedrawScreen" /\ draw(display_buffer') = "Err")
          /\ speaker' = IF r.status = "Panic" THEN speaker
                        ELSE IF audio_sound_timer > 0 THEN "playing"
                        ELSE "paused"
          /\ calls' = IF is_call
                      THEN Append(calls, [at |-> pc, sp |-> stack_pointer])
                      ELSE IF is_ret /\ calls # << >>
                      THEN SubSeq(calls, 1, Len(calls) - 1)
                      ELSE calls
  /\ UNCHANGED << overflow_checks, rom_len, audio_sound_timer >>

\* one iteration of main's loop body from chip8.cycle() on
Cycle ==
  /\ ~quit
  /\ last.status # "Panic"
  /\ CycleOn(keyboard_buffer)
  /\ UNCHANGED << keyboard_buffer, polled >>

\* input.rs lines 44-60: the hex key of a keycode
KeyIndex ==
  [ Num1 |-> 1, Num2 |-> 2, Num3 |-> 3, Num4 |-> 12,
    Q |-> 4, W |-> 5, E |-> 6, R |-> 13,
    A |-> 7, S |-> 8, D |-> 9, F |-> 14,
    Z |-> 10, X |-> 0, C |-> 11, V |-> 15 ]

\* the keys held down at a poll are drawn from these
MaxKeys == 1
PollKeys == { k \in DOMAIN KeyIndex : KeyIndex[k] <= MaxKeys } \cup {"Escape"}

\* (variant: Escape is one more unmapped key)
poll_past_escape(buffer, quit_event, pressed) ==
  [ ok |-> ~quit_event,
    buffer |-> IF quit_event THEN buffer
               ELSE [i \in 0..(KEYBOARD_SIZE - 1) |->
                       IF \E k \in pressed \ {"Escape"} : KeyIndex[k] = i
                       THEN 1 ELSE buffer[i]] ]

\* KeyboardDriver::poll on the latch buffer.  A Quit event returns Err
\* before the latch is touched; Escape follows every mapped key in scancode
\* order, so the mapped keys held with it are latched before it returns Err.
poll(buffer, quit_event, pressed) ==
  IF quit_event THEN [ ok |-> FALSE, buffer |-> buffer ]
  ELSE [ ok |-> "Escape" \notin pressed,
         buffer |-> [i \in 0..(KEYBOARD_SIZE - 1) |->
                       IF \E k \in pressed \ {"Escape"} : KeyIndex[k] = i
                       THEN 1 ELSE buffer[i]] ]

\* main.rs lines 40-43: a call of poll; an Err ends the loop
Poll ==
  /\ ~quit
  /\ last.status # "Panic"
  /\ \E quit_event \in BOOLEAN, pressed \in SUBSET PollKeys :
       LET p == poll(keyboard_buffer, quit_event, pressed)
       IN /\ quit_event => pressed = {}
          /\ keyboard_buffer' = p.buffer
          /\ quit' = ~p.ok
          /\ polled' = IF quit_event THEN {"Quit"} ELSE pressed
  /\ UNCHANGED << stack, registers, idx_register, pc, stack_pointer,
                  delay_timer, sound_timer, ram, display_buffer,
                  overflow_checks, rom_len, last, last2, calls,
                  audio_sound_timer, speaker >>

\* main.rs lines 39-63: one iteration of the loop, the poll and, unless it
\* returned Err, the cycle on the latch the poll left
Loop ==
  /\ ~quit
  /\ last.status # "Panic"
  /\ \E quit_event \in BOOLEAN, pressed \in SUBSET PollKeys :
       LET p == poll(keyboard_buffer, quit_event, pressed)
       IN /\ quit_event => pressed = {}
          /\ keyboard_buffer' = p.buffer
          /\ polled' = IF quit_event THEN {"Quit"} ELSE pressed
          /\ IF p.ok THEN CycleOn(p.buffer)
             ELSE /\ quit' = TRUE
                  /\ UNCHANGED << stack, registers, idx_register, pc,
                                    stack_pointer, delay_timer, sound_timer,
                                    ram,
                                    display_buffer, overflow_checks,
                                    rom_len, last, last2, calls,
                                    audio_sound_timer, speaker >>

\* main.rs lines 12-17: main returns Err when no ROM path was given, as it
\* does when Rom::new fails; args holds the program name and the files
NoFile == [readable |-> FALSE, bytes |-> << >>]
InitMain(argvs) ==
  \E args \in argvs :
     IF Len(args) <= 1 THEN InitLoad({NoFile}) ELSE InitLoad({args[2]})

\* ------------------------------------------------------- sample programs
\* Register indices the sample programs use: V0..V[MaxReg] and VF.
MaxReg == 1
RegIdx == (0..MaxReg) \cup {15}
\* Byte values the sample programs load into registers.
ByteVals == {0, 1, 255}

\* 6xnn with nn given as a byte
Ld(x, v) == W(6, x, v \div 16, v % 16)

\* what the last call of cycle did
Ran == last.status \in {"Continue", "RedrawScreen", "Waiting"}
LastOp == IF last.instr = << >> THEN -1 ELSE last.instr[1]
LastX == IF last.instr = << >> THEN 0 ELSE last.instr[2]
LastY == IF last.instr = << >> THEN 0 ELSE last.instr[3]
LastN == IF last.instr = << >> THEN -1 ELSE last.instr[4]
LastNN == LastY * 16 + LastN
LastNNN == LastX * 256 + LastY * 16 + LastN

\* ------------------------------------------------- arithmetic (C4, C5)
\* VF := c; Vx := a; Vy := b; then one of 8xy4, 8xy5, 8xy7, 8xy6, 8xyE
AluImages ==
  { to_bytes(<< Ld(15, c), Ld(x, a), Ld(y, b), W(8, x, y, n) >>) :
      << x, y, n, a, b, c >> \in
        RegIdx \X RegIdx \X {4, 5, 7, 6, 14} \X ByteVals \X ByteVals \X {0, 255} }

InitAlu == InitWith(AluImages)
SpecAlu == InitAlu /\ [][Cycle]_vars

\* the flag the opcode table documents for 8xyN, from operand values vx, vy
documented_flag(n, vx, vy) ==
  CASE n = 4 -> IF vx + vy > 255 THEN 1 ELSE 0
    [] n = 5 -> IF vx >= vy THEN 1 ELSE 0
    [] n = 7 -> IF vy >= vx THEN 1 ELSE 0
    [] n = 6 -> vx % 2
    [] n = 14 -> vx \div 128

LastIsAlu == Ran /\ LastOp = 8 /\ LastN \in {4, 5, 7, 6, 14}

\* C4: after 8xy4, 8xy5, 8xy7, 8xy6 or 8xyE, for every x and y including
\* x = 0xF, VF is the documented flag of the operand values held before the
\* instruction.
C4_FlagIsDocumented ==
  LastIsAlu =>
    registers[15] =
      documented_flag(LastN, last.registers[LastX], last.registers[LastY])

\* C5: after 8xy4, 8xy5, 8xy7 with x # 0xF, Vx is the sum or difference
\* mod 256 of the values Vx and Vy held before the instruction, for every y
\* including y = 0xF, and Vy is unchanged when y differs from x and 0xF.
C5_ResultFromOldOperands ==
  (LastIsAlu /\ LastN \in {4, 5, 7} /\ LastX # 15) =>
    LET vx == last.registers[LastX]
        vy == last.registers[LastY]
    IN /\ registers[LastX] =
            CASE LastN = 4 -> (vx + vy) % 256
              [] LastN = 5 -> (vx - vy + 256) % 256
              [] LastN = 7 -> (vy - vx + 256) % 256
       /\ (LastY # LastX /\ LastY # 15) => registers[LastY] = vy

\* ---------------------------------------------------- skips (C6)
\* Vx := a; Vy := b; then 3xnn or 4xnn with nn = b, or 5xy0 or 9xy0
SkipImages ==
  UNION { { to_bytes(<< Ld(x, a), Ld(y, b), w >>) :
              w \in { W(3, x, b \div 16, b % 16), W(4, x, b \div 16, b % 16),
                      W(5, x, y, 0), W(9, x, y, 0) } } :
          << x, y, a, b >> \in RegIdx \X RegIdx \X ByteVals \X ByteVals }

InitSkip == InitWith(SkipImages)
SpecSkip == InitSkip /\ [][Cycle]_vars

LastIsSkip == Ran /\ (LastOp \in {3, 4} \/ (LastOp \in {5, 9} /\ LastN = 0))

\* the skip condition of the table, on the register values held before
skip_condition ==
  LET vx == last.registers[LastX]
      vy == last.registers[LastY]
  IN CASE LastOp = 3 -> vx = LastNN
       [] LastOp = 4 -> vx # LastNN
       [] LastOp = 5 -> vx = vy
       [] LastOp = 9 -> vx # vy

\* C6: 3xnn, 4xnn, 5xy0 and 9xy0 leave pc at the pre-fetch value plus 4
\* exactly when the skip condition holds and at the pre-fetch value plus 2
\* otherwise, and change no register.
C6_SkipAdvance ==
  LastIsSkip =>
    /\ pc = last.pc + (IF skip_condition THEN 4 ELSE 2)
    /\ registers = last.registers
    /\ idx_register = last.idx_register

\* a 9xy0 on two different registers holding different values has skipped
C6_Witness ==
  /\ LastIsSkip /\ LastOp = 9 /\ LastX # LastY
  /\ last.registers[LastX] # last.registers[LastY]
  /\ pc = last.pc + 4

\* ------------------------------------------- one of each opcode (C1)
\* one instruction word for every arm of the dispatch, and some words no arm
\* decodes
OpsWords ==
  { W(0, 0, 14, 0), W(0, 0, 14, 14), W(1, 2, 0, 4), W(2, 2, 0, 4),
    W(3, 0, 0, 1), W(3, 0, 0, 2), W(4, 0, 0, 1), W(4, 0, 0, 2),
    W(5, 0, 1, 0), W(9, 0, 1, 0), W(6, 1, 2, 3), W(7, 0, 15, 15),
    W(8, 1, 0, 0), W(8, 1, 0, 1), W(8, 1, 0, 2), W(8, 1, 0, 3),
    W(8, 1, 0, 4), W(8, 1, 0, 5), W(8, 1, 0, 6), W(8, 1, 0, 7),
    W(8, 1, 0, 14), W(10, 1, 2, 3), W(11, 2, 0, 4), W(12, 1, 0, 1),
    W(13, 0, 1, 5), W(13, 0, 0, 0), W(14, 0, 9, 14), W(14, 0, 10, 1),
    W(15, 0, 0, 7), W(15, 0, 1, 5), W(15, 0, 1, 8), W(15, 0, 1, 14),
    W(15, 0, 2, 9), W(15, 0, 3, 3), W(15, 1, 5, 5), W(15, 1, 6, 5),
    W(15, 1, 0, 10),
    W(0, 1, 2, 3), W(5, 0, 1, 1), W(8, 1, 0, 8), W(9, 0, 1, 2),
    W(14, 0, 0, 0), W(15, 0, 0, 0), W(15, 15, 15, 15) }

\* the word at 0x200; for the return, a call to it first
OpsImages ==
  { to_bytes(IF w = W(0, 0, 14, 14)
             THEN << W(2, 2, 0, 4), W(1, 2, 0, 2), w >>
             ELSE << w >>) : w \in OpsWords }

InitOps == InitWith(OpsImages)
NextKeys == Cycle \/ Poll
SpecOps == InitOps /\ [][NextKeys]_vars

LastIsKeyWait == LastOp = 15 /\ LastY = 0 /\ LastN = 10
LatchClear(keyboard) == \A i \in 0..(KEYBOARD_SIZE - 1) : keyboard[i] = 0

\* C1: a call of cycle that returns gives RedrawScreen exactly for 00E0 and
\* Dxyn, Waiting exactly for Fx0A with no latch entry down, Continue for
\* every other instruction, and never an absent status.
C1_StatusContract ==
  /\ last.status \in {"NoCall", "Continue", "RedrawScreen", "Waiting", "Panic"}
  /\ Ran =>
       /\ last.status = "RedrawScreen"
            <=> (last.instr = << 0, 0, 14, 0 >> \/ LastOp = 13)
       /\ last.status = "Waiting"
            <=> (LastIsKeyWait /\ LatchClear(last.keyboard))
       /\ last.status = "Continue"
            <=> ~(last.instr = << 0, 0, 14, 0 >> \/ LastOp = 13)
                /\ ~(LastIsKeyWait /\ LatchClear(last.keyboard))

\* a key wait that found a key down has returned Continue
C1_Witness ==
  /\ LastIsKeyWait /\ ~LatchClear(last.keyboard) /\ last.status = "Continue"
  /\ last2.status = "Waiting"

\* ------------------------------------------------ key wait (C2, C3)
\* V1 := t; delay := V1; sound := V1; then Fx0A
KeyImages ==
  { to_bytes(<< Ld(1, t), W(15, 1, 1, 5), W(15, 1, 1, 8), W(15, x, 0, 10) >>) :
      << x, t >> \in RegIdx \X {0, 3} }

InitKey == InitWith(KeyImages)
SpecKey == InitKey /\ [][NextKeys]_vars

\* C2: a cycle that executes Fx0A while all 16 latch entries are 0 reports
\* Waiting and changes nothing: pc, registers, index register, stack, stack
\* pointer, RAM, framebuffer and both timers keep their values.
C2_WaitIsNoOp ==
  [][ ( /\ Cycle
        /\ fetched(machine) # << >>
        /\ fetched(machine)[1] = 15 /\ fetched(machine)[3] = 0
        /\ fetched(machine)[4] = 10
        /\ LatchClear(keyboard_buffer) )
      => /\ last'.status = "Waiting"
         /\ UNCHANGED << stack, registers, idx_register, pc, stack_pointer,
                         delay_timer, sound_timer, ram, display_buffer >>
    ]_vars

\* two consecutive waiting cycles with both timers running
C2_Witness ==
  /\ last.status = "Waiting" /\ last2.status = "Waiting"
  /\ LastIsKeyWait /\ LatchClear(last.keyboard)
  /\ delay_timer > 0 /\ sound_timer > 0
  /\ pc = last.pc

\* the lowest k with keyboard[k] = 1
lowest_down(keyboard) ==
  CHOOSE k \in 0..(KEYBOARD_SIZE - 1) :
    keyboard[k] = 1 /\ \A j \in 0..(KEYBOARD_SIZE - 1) : keyboard[j] = 1 => k <= j

\* C3: a cycle on Fx0A stalls (Waiting, pc at the pre-fetch value) exactly
\* while no latch entry is down; the first cycle that finds an entry at 1
\* sets Vx to the lowest such index, reports Continue and leaves pc at the
\* pre-fetch value plus 2.
C3_StallUntilKey ==
  (Ran /\ LastIsKeyWait) =>
    IF LatchClear(last.keyboard)
    THEN last.status = "Waiting" /\ pc = last.pc
    ELSE /\ last.status = "Continue"
         /\ pc = last.pc + 2
         /\ registers[LastX] = lowest_down(last.keyboard)
         /\ \A i \in 0..(REG_COUNT - 1) :
              i # LastX => registers[i] = last.registers[i]

\* a stalled machine left the stall with keys 0 and 1 down and took key 0
C3_Witness ==
  /\ Ran /\ LastIsKeyWait /\ last2.status = "Waiting"
  /\ last.status = "Continue"
  /\ last.keyboard[0] = 1 /\ last.keyboard[1] = 1
  /\ last.registers[LastX] # 0
  /\ registers[LastX] = 0 /\ pc = last.pc + 2

\* ---------------------------------------------- call and return (C7)
\* the deepest nesting of the sample programs
MaxDepth == 16

\* k nested subroutines: 0x200 calls S1 and is followed by a jump to itself;
\* Si, at 0x204 + 4 (i - 1), calls S(i+1) and then returns; Sk only returns.
call_words(k) ==
  << W(2, 2, 0, 4), W(1, 2, 0, 2) >> \o
  [ j \in 1..(2 * k) |->
      IF j % 2 = 0 THEN W(0, 0, 14, 14)
      ELSE IF j = 2 * k - 1 THEN W(0, 0, 14, 14)
      ELSE 8192 + 512 + 4 + 4 * ((j + 1) \div 2) ]

CallImages == { to_bytes(call_words(k)) : k \in 1..MaxDepth }

InitCall == InitWith(CallImages)
SpecCall == InitCall /\ [][Cycle]_vars

\* C7: 2nnn stores the advanced pc at stack[sp], then increments sp and
\* jumps; 00EE decrements sp and then reads stack[sp]; so every return
\* restores pc to the instruction following the matching call and the stack
\* pointer to the value that call found, for up to 16 nested calls.
C7_CallReturnRoundTrip ==
  /\ (Ran /\ LastOp = 2) =>
        /\ stack[last.stack_pointer] = last.pc + 2
        /\ stack_pointer = last.stack_pointer + 1
        /\ pc = LastNNN
  /\ (Ran /\ last.instr = << 0, 0, 14, 14 >>) =>
        /\ stack_pointer = last.stack_pointer - 1
        /\ pc = stack[stack_pointer]
        /\ last.call # NoMatch
        /\ pc = last.call.at + 2
        /\ stack_pointer = last.call.sp

\* sixteen nested calls have all returned: the last return is back at 0x202
\* with an empty stack
C7_Witness ==
  /\ Ran /\ last.instr = << 0, 0, 14, 14 >>
  /\ stack_pointer = 0 /\ pc = 514 /\ calls = << >>
  /\ stack[STACK_SIZE - 1] = 512 + 4 * (STACK_SIZE - 1) + 2

\* ------------------------------------------------ drawing (C8, C9, C10)
\* VF := c; V0 := a; V1 := b; idx := i; then D01n twice, either back to back
\* or with 00E0 between the two draws.  idx 0 and 75 are in the font atlas,
\* 768 is in the zero-filled part of the ROM buffer (an empty sprite).
DrawImages ==
  UNION { { to_bytes(<< Ld(15, c), Ld(0, a), Ld(1, b), 40960 + i,
                        W(13, 0, 1, n), W(13, 0, 1, n) >>),
            to_bytes(<< Ld(15, c), Ld(0, a), Ld(1, b), 40960 + i,
                        W(13, 0, 1, n), W(0, 0, 14, 0), W(13, 0, 1, n) >>) } :
          << a, b, c, i, n >> \in
            {0, 61, 255} \X {0, 29, 255} \X {0, 1} \X {0, 75, 768} \X {0, 5, 15} }

InitDraw == InitWith(DrawImages)
SpecDraw == InitDraw /\ [][Cycle]_vars

LastIsDraw == last.status = "RedrawScreen" /\ LastOp = 13
\* the origin of the last draw
LastOriginX == last.registers[LastX] % 64
LastOriginY == last.registers[LastY] % 32

\* C8: after Dxyn, VF is 1 if at least one framebuffer cell went from 1 to 0
\* during the instruction and 0 otherwise, whatever VF held before.
C8_FlagIsCollision ==
  [][ ( /\ Cycle
        /\ fetched(machine) # << >>
        /\ fetched(machine)[1] = 13
        /\ last'.status = "RedrawScreen" )
      => registers'[15] =
           IF \E r \in 0..(CHIP8_HEIGHT - 1), c \in 0..(CHIP8_WIDTH - 1) :
                display_buffer[r][c] = 1 /\ display_buffer'[r][c] = 0
           THEN 1 ELSE 0
    ]_vars

\* the last cycle repeated the draw of the cycle before it (same instruction,
\* same Vx, Vy and index register; a draw leaves RAM as it is), and that
\* first draw started from an all-zero framebuffer
LastIsSecondDraw ==
  /\ LastIsDraw
  /\ last2.status = "RedrawScreen" /\ last2.instr = last.instr
  /\ last2.vram_clear
  /\ last2.registers[LastX] = last.registers[LastX]
  /\ last2.registers[LastY] = last.registers[LastY]
  /\ last2.idx_register = last.idx_register

\* C9 as stated: from an all-zero framebuffer, the same Dxyn executed twice
\* leaves the framebuffer all zero and VF = 1.
C9_DrawTwice_AsStated ==
  LastIsSecondDraw => (vram_clear /\ registers[15] = 1)

\* some set bit of the last draw's sprite falls inside the grid
LastSpriteVisible ==
  \E i \in 0..(LastN - 1), b \in 0..7 :
     /\ LastOriginX + b < CHIP8_WIDTH
     /\ LastOriginY + i < CHIP8_HEIGHT
     /\ Bit(ram[last.idx_register + i], 7 - b) = 1

\* C9 (amended): from an all-zero framebuffer, the same Dxyn executed twice
\* leaves the framebuffer all zero; VF = 1 after the second draw when at
\* least one set bit of the sprite falls inside the grid.
C9_DrawTwice ==
  LastIsSecondDraw =>
    /\ vram_clear
    /\ LastSpriteVisible => registers[15] = 1

\* a visible, clipped sprite drawn twice while VF was 0 before both draws
C9_Witness ==
  /\ LastIsSecondDraw /\ LastSpriteVisible
  /\ last2.registers[15] = 0 /\ last.registers[15] = 0
  /\ LastOriginX + 8 > CHIP8_WIDTH
  /\ vram_clear /\ registers[15] = 1

\* the pixel the last draw's sprite puts at row r, column c of an empty grid
sprite_pixel(r, c) ==
  LET i == r - LastOriginY
      b == c - LastOriginX
  IN IF i \in 0..(LastN - 1) /\ b \in 0..7
     THEN Bit(ram[last.idx_register + i], 7 - b)
     ELSE 0

\* C10: 00E0 followed by Dxyn reproduces the sprite exactly: cell
\* (X + b, Y + i) is bit 7 - b of RAM[idx + i] wherever that cell is in the
\* grid, and every other cell is 0, whatever the framebuffer held before the
\* clear.
C10_ClearThenDraw ==
  (LastIsDraw /\ last2.status = "RedrawScreen"
     /\ last2.instr = << 0, 0, 14, 0 >>) =>
    \A r \in 0..(CHIP8_HEIGHT - 1), c \in 0..(CHIP8_WIDTH - 1) :
       display_buffer[r][c] = sprite_pixel(r, c)

\* a clear of a framebuffer that held pixels, then a draw of a sprite that
\* is visible and clipped at the right and bottom edges
C10_Witness ==
  /\ LastIsDraw /\ last2.status = "RedrawScreen"
  /\ last2.instr = << 0, 0, 14, 0 >> /\ ~last2.vram_clear
  /\ LastSpriteVisible /\ ~vram_clear
  /\ LastOriginX + 8 > CHIP8_WIDTH /\ LastOriginY + LastN > CHIP8_HEIGHT

\* C11: Dxyn wraps only the origin.  Cell (X + b, Y + i) of the grid, for
\* i < n and b < 8, is toggled by bit 7 - b of RAM[idx + i]; a bit whose
\* column is 64 or more or whose row is 32 or more is dropped, and every
\* cell outside the clipped rectangle keeps its value.
C11_ClipNoWrap ==
  [][ ( /\ Cycle
        /\ fetched(machine) # << >>
        /\ fetched(machine)[1] = 13
        /\ last'.status = "RedrawScreen" )
      => LET X == registers[fetched(machine)[2]] % 64
             Y == registers[fetched(machine)[3]] % 32
             n == fetched(machine)[4]
         IN \A r \in 0..(CHIP8_HEIGHT - 1), c \in 0..(CHIP8_WIDTH - 1) :
              display_buffer'[r][c] =
                IF (r - Y) \in 0..(n - 1) /\ (c - X) \in 0..7
                THEN (display_buffer[r][c]
                        + Bit(ram[idx_register + (r - Y)], 7 - (c - X))) % 2
                ELSE display_buffer[r][c]
    ]_vars

\* a glyph drawn at (61, 29): its fourth column and its last two rows are
\* past the edges, and neither column 0 nor row 0 received them
C11_Witness ==
  /\ LastIsDraw /\ LastN = 5
  /\ LastOriginX = 61 /\ LastOriginY = 29
  /\ Bit(ram[last.idx_register], 4) = 1
  /\ Bit(ram[last.idx_register + 4], 7) = 1
  /\ display_buffer[29][61] = 1
  /\ display_buffer[29][0] = 0 /\ display_buffer[1][61] = 0

\* ------------------------------------------------------- timers (C12)
\* V0 := t; V1 := u; delay := V0; sound := V1; one instruction w; then
\* V2 := delay.  The timers are at t - 1 and u when w is fetched.
TimerWords ==
  { W(15, 2, 0, 7), W(15, 0, 1, 5), W(15, 1, 1, 5), W(15, 0, 1, 8),
    W(0, 0, 14, 0), W(13, 0, 1, 5), W(7, 0, 15, 15), W(1, 2, 0, 10),
    W(8, 0, 1, 4), W(10, 1, 2, 3), W(3, 0, 0, 0), W(2, 2, 0, 10) }

TimerImages ==
  { to_bytes(<< Ld(0, t), Ld(1, u), W(15, 0, 1, 5), W(15, 1, 1, 8),
                w, W(15, 2, 0, 7) >>) :
      << t, u, w >> \in {0, 1, 2, 11} \X {0, 1, 3} \X TimerWords }

InitTimer == InitWith(TimerImages)
SpecTimer == InitTimer /\ [][Cycle]_vars

\* a timer one cycle later
ticked(t) == IF t > 0 THEN t - 1 ELSE 0

\* C12: a cycle on any instruction but Fx0A decrements each non-zero timer
\* by exactly 1 and leaves a timer at 0, before the instruction acts: Fx07
\* stores the decremented delay timer, Fx15 and Fx18 leave the timer equal
\* to Vx.
C12_TimersTick ==
  (Ran /\ ~LastIsKeyWait) =>
    /\ delay_timer =
         IF LastOp = 15 /\ LastNN = 21 THEN last.registers[LastX]
         ELSE ticked(last.delay_timer)
    /\ sound_timer =
         IF LastOp = 15 /\ LastNN = 24 THEN last.registers[LastX]
         ELSE ticked(last.sound_timer)
    /\ (LastOp = 15 /\ LastNN = 7) =>
         registers[LastX] = ticked(last.delay_timer)

\* Fx07 fetched with the delay timer at 10 and the sound timer at 0
C12_Witness ==
  /\ Ran /\ LastOp = 15 /\ LastNN = 7
  /\ last.delay_timer = 10 /\ last.sound_timer = 0
  /\ registers[LastX] = 9 /\ delay_timer = 9 /\ sound_timer = 0

\* ------------------------------------------------------- loading (C13)
\* V0 := v; V1 := v; idx := 0x123; V0 += 1
LoadProgram(v) ==
  to_bytes(<< Ld(0, v), Ld(1, v), W(10, 1, 2, 3), W(7, 0, 0, 1) >>)

\* a file of len bytes: the program (or as much of it as fits), zeros, and
\* a last byte that is not zero
LoadBytes(len, v) ==
  LET program == LoadProgram(v)
  IN [i \in 1..len |->
        IF i <= 8 THEN program[i] ELSE IF i = len THEN 171 ELSE 0]

LoadLens ==
  { 2, 4, 8, MAX_ROM_BYTES - 1, MAX_ROM_BYTES, MAX_ROM_BYTES + 1,
    MAX_ROM_BYTES + 2 }

LoadFiles ==
  { [readable |-> TRUE, bytes |-> LoadBytes(len, v)] :
      << len, v >> \in LoadLens \X {1, 2, 3} }

InitRom == InitLoad(LoadFiles)
SpecLoad == InitRom /\ [][Cycle]_vars

\* C13: loading a program image longer than MAX_ROM_BYTES fails with an
\* error, so that no cycle is ever executed on it.
C13_OversizeFails ==
  rom_len > MAX_ROM_BYTES => last.status = "NoCall"

\* C14: after construction and init_ram, pc = 0x200, the stack pointer, every
\* stack slot, every register and both timers are 0, RAM[0 .. FONT_SET_SIZE)
\* is the font atlas, RAM[0x200 .. 4096) is the ROM buffer and every byte
\* between the two is 0.
C14_InitialState ==
  (last.status = "NoCall" /\ ~quit) =>
    /\ pc = 512 /\ stack_pointer = 0
    /\ delay_timer = 0 /\ sound_timer = 0 /\ idx_register = 0
    /\ \A i \in 0..(STACK_SIZE - 1) : stack[i] = 0
    /\ \A i \in 0..(REG_COUNT - 1) : registers[i] = 0
    /\ \A a \in 0..(FONT_SET_SIZE - 1) : ram[a] = FONT_SET[a + 1]
    /\ \A a \in FONT_SET_SIZE..511 : ram[a] = 0
    /\ LET buffer == rom_buffer(LoadBytes(rom_len, ram[513]))
       IN \A i \in 0..(MAX_ROM_BYTES - 1) : ram[512 + i] = buffer[i]

\* a file that fills the ROM buffer exactly has been loaded: its last byte
\* is the last byte of RAM
C14_Witness ==
  /\ last.status = "NoCall" /\ ~quit
  /\ rom_len = MAX_ROM_BYTES
  /\ ram[0] = 240 /\ ram[FONT_SET_SIZE - 1] = 128 /\ ram[FONT_SET_SIZE] = 0
  /\ ram[512] = 96 /\ ram[RAM_BYTES - 1] = 171

\* ------------------------------------------------------ decoding (C15)
\* instruction words: every second byte for 0x00, 0x01, Ex and Fx, every
\* last nibble for 5xy, 8xy and 9xy, and some words of the other opcodes
DecodeWords ==
  UNION { { W(0, x, y, n) : << x, y, n >> \in {0, 1} \X (0..15) \X (0..15) },
          { W(op, x, 1, n) : << op, x, n >> \in {5, 8, 9} \X {0, 1} \X (0..15) },
          { W(op, 0, y, n) : << op, y, n >> \in {14, 15} \X (0..15) \X (0..15) },
          { W(op, 2, y, 10) : << op, y >> \in {1, 2, 3, 4, 6, 7, 10, 11, 12, 13} \X {0, 15} } }

DecodeImages == { to_bytes(<< w >>) : w \in DecodeWords }
InitDecode == InitWith(DecodeImages)
SpecDecode == InitDecode /\ [][Cycle]_vars

\* the rows of the opcode table
InTable(opcode, x, y, n) ==
  \/ opcode \in {1, 2, 3, 4, 6, 7, 10, 11, 12, 13}
  \/ opcode = 0 /\ x = 0 /\ y = 14 /\ n \in {0, 14}
  \/ opcode \in {5, 9} /\ n = 0
  \/ opcode = 8 /\ n \in {0, 1, 2, 3, 4, 5, 6, 7, 14}
  \/ opcode = 14 /\ << y, n >> \in { << 9, 14 >>, << 10, 1 >> }
  \/ opcode = 15 /\ << y, n >> \in { << 0, 7 >>, << 0, 10 >>, << 1, 5 >>,
                                     << 1, 8 >>, << 1, 14 >>, << 2, 9 >>,
                                     << 3, 3 >>, << 5, 5 >>, << 6, 5 >> }

\* C15: a word that matches no row of the opcode table is fatal: the cycle
\* returns no status and nothing an instruction could write is written
\* (registers, index register, stack, stack pointer, RAM, framebuffer).  A
\* word of the table is not rejected by the decoder (from the initial
\* registers only the return on an empty stack is fatal, for its own reason).
C15_DecodeOrFatal ==
  [][ (Cycle /\ fetched(machine) # << >>)
      => LET f == fetched(machine)
         IN IF InTable(f[1], f[2], f[3], f[4])
            THEN f = << 0, 0, 14, 14 >> \/ last'.status # "Panic"
            ELSE /\ last'.status = "Panic"
                 /\ UNCHANGED << stack, registers, idx_register,
                                 stack_pointer, ram, display_buffer >>
    ]_vars

\* 5xy1 has been fetched and was fatal
C15_Witness ==
  /\ last.instr = << 5, 1, 1, 1 >> /\ last.status = "Panic"
  /\ pc = 514

\* ------------------------------------------------- stack bounds (C16)
\* V0 := v, then: a subroutine that calls itself without end; a return
\* with nothing to return from; a call, its return, and one return more
StackImages ==
  UNION { { to_bytes(<< Ld(0, v), W(2, 2, 0, 2) >>),
            to_bytes(<< Ld(0, v), W(0, 0, 14, 14) >>),
            to_bytes(<< Ld(0, v), W(2, 2, 0, 4), W(0, 0, 14, 14) >>) } :
          v \in ByteVals }

InitStack == InitWith(StackImages)
SpecStack == InitStack /\ [][Cycle]_vars

\* C16: while the interpreter runs the stack pointer is in 0..STACK_SIZE; a
\* 2nnn with STACK_SIZE return addresses on the stack and a 00EE with none
\* are fatal.
C16_StackPointerInRange ==
  /\ last.status # "Panic" => stack_pointer \in 0..STACK_SIZE
  /\ (LastOp = 2 /\ last.stack_pointer = STACK_SIZE) => last.status = "Panic"
  /\ (last.instr = << 0, 0, 14, 14 >> /\ last.stack_pointer = 0)
       => last.status = "Panic"

\* a return on an empty stack in a build that does not check overflow: the
\* decrement has wrapped and the read of the slot was fatal
C16_Witness ==
  /\ last.instr = << 0, 0, 14, 14 >> /\ last.stack_pointer = 0
  /\ last2.instr = << 0, 0, 14, 14 >> /\ last2.status = "Continue"
  /\ ~overflow_checks /\ last.status = "Panic" /\ stack_pointer = 255

\* ------------------------------------------- binary-coded decimal (C17)
\* Vx := v; idx := a; Fx33, for every byte v
BcdImages ==
  { to_bytes(<< Ld(1, v), 40960 + 768, W(15, 1, 3, 3) >>) : v \in 0..255 }
    \cup
  { to_bytes(<< Ld(x, v), 40960 + a, W(15, x, 3, 3) >>) :
      << x, v, a >> \in {0, 15} \X {0, 9, 10, 99, 100, 199, 255} \X {0, 4093} }

InitBcd == InitWith(BcdImages)
SpecBcd == InitBcd /\ [][Cycle]_vars

\* C17: Fx33 writes the hundreds, tens and ones digits of Vx to RAM[idx],
\* RAM[idx + 1] and RAM[idx + 2], for every Vx, and changes no other byte
\* of RAM, no register and not the index register.
C17_Bcd ==
  [][ ( /\ Cycle
        /\ fetched(machine) # << >>
        /\ fetched(machine)[1] = 15 /\ fetched(machine)[3] = 3
        /\ fetched(machine)[4] = 3
        /\ idx_register + 2 < RAM_BYTES )
      => LET v == registers[fetched(machine)[2]]
             i == idx_register
         IN /\ last'.status = "Continue"
            /\ ram' = [ram EXCEPT ![i] = v \div 100,
                                  ![i + 1] = (v \div 10) % 10,
                                  ![i + 2] = v % 10]
            /\ 100 * ram'[i] + 10 * ram'[i + 1] + ram'[i + 2] = v
            /\ ram'[i] <= 9 /\ ram'[i + 1] <= 9 /\ ram'[i + 2] <= 9
            /\ UNCHANGED << registers, idx_register >>
    ]_vars

\* 255 has been written as 2, 5, 5 to the last three bytes of RAM
C17_Witness ==
  /\ Ran /\ LastOp = 15 /\ LastNN = 51
  /\ last.registers[LastX] = 255 /\ idx_register = RAM_BYTES - 3
  /\ ram[RAM_BYTES - 3] = 2 /\ ram[RAM_BYTES - 2] = 5 /\ ram[RAM_BYTES - 1] = 5

\* --------------------------------------- register store and load (C18)
\* V0 := a; V1 := b; VF := c; idx := i; Fx55; V0 := 77; V1 := 78; Fx65
StoreImages ==
  { to_bytes(<< Ld(0, a), Ld(1, b), Ld(15, c), 40960 + i, W(15, x, 5, 5),
                Ld(0, 77), Ld(1, 78), W(15, x, 6, 5) >>) :
      << a, b, c, i, x >> \in
        {1, 255} \X {2, 254} \X {3, 253} \X {0, RAM_BYTES - 16} \X {0, 1, 15} }

InitStore == InitWith(StoreImages)
SpecStore == InitStore /\ [][Cycle]_vars

\* the last cycle was the Fx65 of the program and returned
LastIsLoad == Ran /\ LastOp = 15 /\ LastNN = 101

\* C18: Fx55 copies V0..Vx inclusive to RAM[idx .. idx + x], Fx65 copies
\* RAM[idx .. idx + x] to V0..Vx inclusive; both leave the index register,
\* the registers above Vx and RAM outside the range as they are; so the
\* Fx65 of the program restores the V0..Vx its Fx55 stored (ram[513] and
\* ram[515] are the a and b of the program).
C18_StoreLoad ==
  /\ [][ ( /\ Cycle
           /\ fetched(machine) # << >>
           /\ fetched(machine)[1] = 15 /\ fetched(machine)[3] = 5
           /\ fetched(machine)[4] = 5
           /\ idx_register + fetched(machine)[2] < RAM_BYTES )
         => LET x == fetched(machine)[2]
            IN /\ last'.status = "Continue"
               /\ ram' = [a \in 0..(RAM_BYTES - 1) |->
                            IF a \in idx_register..(idx_register + x)
                            THEN registers[a - idx_register] ELSE ram[a]]
               /\ UNCHANGED << registers, idx_register >>
       ]_vars
  /\ [][ ( /\ Cycle
           /\ fetched(machine) # << >>
           /\ fetched(machine)[1] = 15 /\ fetched(machine)[3] = 6
           /\ fetched(machine)[4] = 5
           /\ idx_register + fetched(machine)[2] < RAM_BYTES )
         => LET x == fetched(machine)[2]
            IN /\ last'.status = "Continue"
               /\ registers' = [i \in 0..(REG_COUNT - 1) |->
                                  IF i <= x THEN ram[idx_register + i]
                                  ELSE registers[i]]
               /\ UNCHANGED << ram, idx_register >>
       ]_vars
  /\ [](LastIsLoad =>
          /\ registers[0] = ram[513]
          /\ registers[1] = IF LastX >= 1 THEN ram[515] ELSE 78)

\* V0..VF were stored over the start of the font atlas, V0 and V1 were
\* overwritten, and the load has brought them back
C18_Witness ==
  /\ LastIsLoad /\ LastX = 15 /\ idx_register = 0
  /\ last.registers[0] = 77 /\ last.registers[1] = 78
  /\ registers[0] = 255 /\ registers[1] = 254 /\ registers[15] = 253
  /\ ram[0] = 255 /\ ram[2] = 0 /\ ram[15] = 253 /\ ram[16] = 16

\* -------------------------------------------------- add immediate (C19)
\* VF := c; Vx := a; Vx += nn
AddImages ==
  { to_bytes(<< Ld(15, c), Ld(x, a), W(7, x, nn \div 16, nn % 16) >>) :
      << c, x, a, nn >> \in
        {0, 1, 255} \X {0, 1, 15} \X {0, 1, 200, 255} \X {0, 1, 100, 255} }

InitAdd == InitWith(AddImages)
SpecAdd == InitAdd /\ [][Cycle]_vars

\* C19: 7xnn sets Vx to (Vx + nn) mod 256 and changes no other register:
\* for x other than 0xF, VF keeps its value even when the addition wraps.
C19_AddNoFlag ==
  (Ran /\ LastOp = 7) =>
    /\ registers[LastX] = (last.registers[LastX] + LastNN) % 256
    /\ \A i \in 0..(REG_COUNT - 1) :
         i # LastX => registers[i] = last.registers[i]

\* 200 + 100 has wrapped to 44 in V1 and VF is still 0
C19_Witness ==
  /\ Ran /\ LastOp = 7 /\ LastX = 1
  /\ last.registers[1] = 200 /\ LastNN = 100
  /\ registers[1] = 44 /\ last.registers[15] = 0 /\ registers[15] = 0

\* ----------------------------------------------------- key skips (C20)
\* Vx := k; then Ex9E or ExA1, with the latch polled between the cycles
KeySkipImages ==
  { to_bytes(<< Ld(x, k), W(14, x, w \div 16, w % 16) >>) :
      << x, k, w >> \in RegIdx \X {0, 1, 2, 15} \X {158, 161} }

InitKeySkip == InitWith(KeySkipImages)
SpecKeySkip == InitKeySkip /\ [][NextKeys]_vars

LastIsKeySkip == Ran /\ LastOp = 14 /\ LastNN \in {158, 161}

\* C20: Ex9E leaves pc at the pre-fetch value plus 4 exactly when latch
\* entry Vx, as it was when the cycle started, is 1, and plus 2 otherwise;
\* ExA1 does the opposite; neither changes a register.
C20_KeySkip ==
  LastIsKeySkip =>
    LET down == last.keyboard[last.registers[LastX]] = 1
    IN /\ pc = last.pc + (IF down <=> (LastNN = 158) THEN 4 ELSE 2)
       /\ registers = last.registers

\* Ex9E with Vx = 1 while key 1 is latched and key 0 is not: it skipped
C20_Witness ==
  /\ LastIsKeySkip /\ LastNN = 158 /\ LastX = 0
  /\ last.registers[0] = 1
  /\ last.keyboard[1] = 1 /\ last.keyboard[0] = 0
  /\ pc = last.pc + 4

\* ------------------------------------------- jumps and index load (C21)
\* V0 := v; call 0x204; there one of 1nnn, Bnnn, Annn
JumpImages ==
  { to_bytes(<< Ld(0, v), W(2, 2, 0, 4), op * 4096 + nnn >>) :
      << v, op, nnn >> \in {0, 1, 255} \X {1, 10, 11} \X {0, 516, 517, 4095} }

InitJump == InitWith(JumpImages)
SpecJump == InitJump /\ [][Cycle]_vars

\* C21: 1nnn sets pc to nnn and Bnnn to nnn + V0, over the advanced pc;
\* Annn sets the index register to nnn and leaves pc at the pre-fetch value
\* plus 2; none of them changes the stack, the stack pointer or a register.
C21_JumpAndIndex ==
  [][ ( /\ Cycle
        /\ fetched(machine) # << >>
        /\ fetched(machine)[1] \in {1, 10, 11} )
      => LET f == fetched(machine)
             nnn == f[2] * 256 + f[3] * 16 + f[4]
         IN /\ last'.status = "Continue"
            /\ pc' = CASE f[1] = 1 -> nnn
                       [] f[1] = 11 -> (nnn + registers[0]) % 65536
                       [] f[1] = 10 -> pc + 2
            /\ idx_register' = IF f[1] = 10 THEN nnn ELSE idx_register
            /\ UNCHANGED << stack, stack_pointer, registers >>
    ]_vars

\* BFFF with V0 = 255 inside a subroutine: pc is 0x10FE, the return address
\* is still on the stack
C21_Witness ==
  /\ Ran /\ LastOp = 11 /\ LastNNN = 4095 /\ last.registers[0] = 255
  /\ pc = 4350 /\ stack_pointer = 1 /\ stack[0] = 516

\* ------------------------------------------------ glyph address (C22)
\* Vx := v; idx := glyph address of Vx
FontImages ==
  { to_bytes(<< Ld(x, v), W(15, x, 2, 9) >>) :
      << x, v >> \in {0, 1, 15} \X {0, 1, 9, 15, 16, 51, 52, 100, 255} }

InitFont == InitWith(FontImages)
SpecFont == InitFont /\ [][Cycle]_vars

\* C22: Fx29 sets the index register to Vx * 5 for every Vx in 0..255: the
\* product is a 16-bit value, neither truncated to 8 bits nor a failure.
C22_GlyphAddress ==
  (last.status # "NoCall" /\ LastOp = 15 /\ LastNN = 41) =>
    /\ last.status = "Continue"
    /\ idx_register = last.registers[LastX] * 5

\* --------------------------------------------------- index add (C23)
\* VF := c; Vx := v; idx := i; idx += Vx
IndexImages ==
  { to_bytes(<< Ld(15, c), Ld(x, v), 40960 + i, W(15, x, 1, 14) >>) :
      << c, x, v, i >> \in {0, 255} \X {0, 1, 15} \X {0, 1, 255} \X {0, 4095} }

\* VF := c; V0 := 255; idx := 0xFFF; then idx += V0 242 times in a row: the
\* 241st addition passes 65535
IndexWrapImages ==
  { to_bytes(<< Ld(15, c), Ld(0, 255), 40960 + 4095 >> \o
             [k \in 1..242 |-> W(15, 0, 1, 14)]) :
      c \in {0, 255} }

InitIndex == InitWith(IndexImages \cup IndexWrapImages)
SpecIndex == InitIndex /\ [][Cycle]_vars

\* C23: Fx1E sets the index register to (idx + Vx) mod 65536, in every
\* build, and changes no register: VF keeps its value also when the
\* addition wraps.
C23_IndexAdd ==
  (last.status # "NoCall" /\ LastOp = 15 /\ LastNN = 30) =>
    /\ last.status = "Continue"
    /\ idx_register = (last.idx_register + last.registers[LastX]) % 65536
    /\ registers = last.registers

\* the addition that passes 65535, in a build that checks overflow, with
\* VF at 255 before and after
C23_Witness ==
  /\ Ran /\ LastOp = 15 /\ LastNN = 30 /\ overflow_checks
  /\ last.idx_register + last.registers[LastX] >= 65536
  /\ idx_register = 14 /\ registers[15] = 255

\* ------------------------------------------------------ key latch (C24)
\* C24: after a poll that read the keyboard, latch entry k is 1 exactly
\* when the key mapped to hex key k was held down at that poll, so that a
\* key released since an earlier poll reads 0.
C24_LatchFollowsKeys ==
  "Quit" \notin polled =>
    \A k \in DOMAIN KeyIndex :
       keyboard_buffer[KeyIndex[k]] = 1 <=> k \in polled

\* ------------------------------------------------------ main loop (C25)
\* V0 := v; ST := V0; wait for a key into V1; clear; jump back to the wait
MainImages ==
  { to_bytes(<< Ld(0, v), W(15, 0, 1, 8), W(15, 1, 0, 10), 224, 4612 >>) :
      v \in {0, 2} }

MainArgs ==
  { << "chip8" >> } \cup
  { << "chip8", [readable |-> r, bytes |-> image] >> :
      r \in BOOLEAN, image \in MainImages }

InitLoop == InitMain(MainArgs)
SpecMain == InitLoop /\ [][Loop]_vars

\* C25: every cycle runs on the latch of a poll made just before it, which
\* did not ask to quit; a poll that finds a Quit event or Escape ends the
\* loop without a cycle, and nothing runs after it; when main returns
\* before its first poll (no ROM argument, Rom::new failed) no cycle has run.
C25_PollThenCycle ==
  /\ []((quit /\ polled = {}) => last.status = "NoCall")
  /\ [][ /\ ~quit
         /\ IF polled' \cap {"Quit", "Escape"} # {}
            THEN /\ quit'
                 /\ last' = last
                 /\ machine' = machine
            ELSE /\ ~quit'
                 /\ last'.status # "NoCall"
                 /\ last'.keyboard = keyboard_buffer'
                 /\ \A k \in polled' : last'.keyboard[KeyIndex[k]] = 1 ]_vars

C25_Witness ==
  /\ quit
  /\ "Escape" \in polled
  /\ last.status = "RedrawScreen"
  /\ last2.status = "Continue"
  /\ last.keyboard[0] = 1
  /\ last.keyboard[1] = 0
  /\ keyboard_buffer[1] = 1

\* ------------------------------------------------------------ tone (C26)
\* C26: after every cycle of the loop that returned a status, the speaker
\* plays exactly when the sound timer is not zero.
C26_ToneFollowsTimer ==
  last.status \in {"Continue", "RedrawScreen", "Waiting"} =>
    (speaker = "playing" <=> sound_timer > 0)

\* ------------------------------------------------------- alignment (C27)
\* C27: in every reachable state pc is even.
C27_PcEven == pc % 2 = 0

\* ------------------------------------------------------ binary cells (C28)
\* C28: starting from the all-zero framebuffer, after any sequence of
\* cycles every framebuffer cell is 0 or 1, and the renderer's draw of it
\* does not return the non-binary-pixel error.
C28_CellsBinary ==
  /\ \A r \in 0..(CHIP8_HEIGHT - 1) : \A c \in 0..(CHIP8_WIDTH - 1) :
        display_buffer[r][c] \in {0, 1}
  /\ draw(display_buffer) = "Ok"
  /\ ~quit

\* a second draw of a 15-row sprite has put every cell of the first back
C28_Witness ==
  /\ LastIsDraw
  /\ LastN = 15
  /\ last2.status = "RedrawScreen"
  /\ ~last.vram_clear
  /\ vram_clear
  /\ registers[15] = 1

\* ------------------------------------------------ frame conditions (C29)
\* one instruction of every kind at 0x200; for the return, a call to it
\* first; for the clear, a draw of the glyph at idx 0 first.  The latch is
\* polled between the cycles.  idx is 0, so Fx33 and Fx55 write over the
\* first font bytes.
FrameWords ==
  { W(0, 0, 14, 0), W(0, 0, 14, 14), W(1, 2, 1, 0), W(2, 2, 1, 0),
    W(3, 0, 0, 0), W(5, 0, 1, 0), W(6, 0, 0, 9), W(7, 1, 0, 1),
    W(8, 0, 1, 0), W(8, 0, 1, 1), W(8, 0, 1, 4), W(8, 0, 1, 5),
    W(8, 0, 1, 6), W(8, 0, 1, 14), W(9, 0, 1, 0), W(10, 1, 2, 3),
    W(11, 2, 1, 0), W(12, 0, 0, 1), W(13, 0, 0, 5), W(14, 0, 9, 14),
    W(14, 0, 10, 1), W(15, 1, 0, 7), W(15, 1, 0, 10), W(15, 1, 1, 5),
    W(15, 1, 1, 8), W(15, 1, 1, 14), W(15, 0, 2, 9), W(15, 1, 3, 3),
    W(15, 1, 5, 5), W(15, 1, 6, 5) }

FrameImages ==
  { to_bytes(IF w = W(0, 0, 14, 14) THEN << W(2, 2, 0, 2), w >>
             ELSE IF w = W(0, 0, 14, 0) THEN << W(13, 0, 0, 5), w >>
             ELSE << w >>) : w \in FrameWords }

InitFrame == InitWith(FrameImages)
SpecFrame == InitFrame /\ [][NextKeys]_vars

\* C29: a cycle leaves the keyboard latch as it was; the framebuffer
\* changes only in a cycle on 00E0 or Dxyn; the stack and the stack pointer
\* change only in a cycle on 2nnn or 00EE; RAM changes only in a cycle on
\* Fx33 or Fx55.
C29_Frame ==
  [][ LET f == fetched(machine)
          op == IF f = << >> THEN -1 ELSE f[1]
          nn == IF f = << >> THEN -1 ELSE f[3] * 16 + f[4]
      IN /\ last' # last => keyboard_buffer' = keyboard_buffer
         /\ display_buffer' # display_buffer =>
              (f = << 0, 0, 14, 0 >> \/ op = 13)
         /\ (stack' # stack \/ stack_pointer' # stack_pointer) =>
              (op = 2 \/ f = << 0, 0, 14, 14 >>)
         /\ ram' # ram => (op = 15 /\ nn \in {51, 85}) ]_vars

C29_Witness ==
  /\ Ran
  /\ LastOp = 15
  /\ LastNN = 85
  /\ ram[0] = 0
  /\ ram[1] = 0
  /\ ram[2] = 144
  /\ keyboard_buffer[1] = 1
  /\ last.keyboard[1] = 1

\* ------------------------------------------- key wait and timers (C30)
\* C30: a cycle on Fx0A that finds a key down and reports Continue
\* decrements each non-zero timer by 1, as a cycle on any other
\* instruction does.
C30_KeyFoundTicks ==
  (LastIsKeyWait /\ last.status = "Continue") =>
    /\ delay_timer = ticked(last.delay_timer)
    /\ sound_timer = ticked(last.sound_timer)

\* ------------------------------------------- the edges of RAM (C31, C32)
\* the instructions that index RAM by idx, and the key skips
EdgeWords ==
  { W(13, 0, 1, 5), W(15, 0, 3, 3), W(15, 0, 5, 5), W(15, 1, 5, 5),
    W(15, 0, 6, 5), W(15, 1, 6, 5) }

\* V0 := 7; V1 := 9; idx := i; one of the words: i + offset stays in RAM or
\* passes its last address
EdgeImages ==
  { to_bytes(<< Ld(0, 7), Ld(1, 9), 40960 + i, w >>) :
      << i, w >> \in {RAM_BYTES - 3, RAM_BYTES - 2, RAM_BYTES - 1} \X EdgeWords }

\* V0 := 255; V1 := v; idx := 0xFFF; idx += V0 240 times; idx += V1; one of
\* the words: idx is 65530 or 65535, and idx + offset passes 65535
EdgeWrapImages ==
  { to_bytes(<< Ld(0, 255), Ld(1, v), 40960 + 4095 >>
               \o [k \in 1..240 |-> W(15, 0, 1, 14)]
               \o << W(15, 1, 1, 14), w >>) :
      << v, w >> \in {235, 240} \X EdgeWords }

\* V0 := v; Ex9E or ExA1 on V0
EdgeKeyImages ==
  { to_bytes(<< Ld(0, v), W(14, 0, w \div 16, w % 16) >>) :
      << v, w >> \in {15, 16, 255} \X {158, 161} }

\* a jump to the last addresses of RAM and past them
EdgeJumpImages ==
  { to_bytes(<< Ld(0, v), W(op, 15, 15, n) >>) :
      << v, op, n >> \in {0, 255} \X {1, 11} \X {13, 14, 15} }

InitEdge ==
  InitWith(EdgeImages \cup EdgeWrapImages \cup EdgeKeyImages
             \cup EdgeJumpImages)
SpecEdge == InitEdge /\ [][Cycle]_vars

\* C31: a cycle that ends in a fatal failure has applied none of the
\* register and RAM effects of its instruction.
C31_AllOrNothing ==
  [][ last'.status = "Panic" => (ram' = ram /\ registers' = registers) ]_vars

\* C32: a cycle that computes an index out of range is fatal and touches
\* nothing at a wrapped address: a fetch with pc > 4094, a Dxyn, Fx33, Fx55
\* or Fx65 whose idx + offset passes 4095 and an Ex9E or ExA1 with Vx > 15
\* end in a panic; what such a cycle has changed by then is only the RAM
\* bytes and registers its instruction assigns at idx + offset <= 4095.
C32_InRangeOrFatal ==
  [][ LET f == fetched(machine)
          op == IF f = << >> THEN -1 ELSE f[1]
          x == IF f = << >> THEN 0 ELSE f[2]
          n == IF f = << >> THEN 0 ELSE f[4]
          nn == IF f = << >> THEN -1 ELSE f[3] * 16 + f[4]
          idx == idx_register
          span == CASE op = 13 -> n - 1
                    [] op = 15 /\ nn = 51 -> 2
                    [] op = 15 /\ nn \in {85, 101} -> x
                    [] OTHER -> -1
          digit(k) == CASE k = 0 -> registers[x] \div 100
                        [] k = 1 -> (registers[x] % 100) \div 10
                        [] OTHER -> registers[x] % 10
          out == \/ pc > RAM_BYTES - OP_CODE_BYTES
                 \/ span >= 0 /\ idx + span > RAM_BYTES - 1
                 \/ op = 14 /\ nn \in {158, 161}
                      /\ registers[x] > KEYBOARD_SIZE - 1
      IN (Cycle /\ out) =>
           /\ last'.status = "Panic"
           /\ UNCHANGED << stack, stack_pointer, idx_register,
                           display_buffer, keyboard_buffer >>
           /\ \A a \in 0..(RAM_BYTES - 1) :
                ram'[a] # ram[a] =>
                  /\ op = 15 /\ nn \in {51, 85}
                  /\ a >= idx
                  /\ ram'[a] = IF nn = 51 THEN digit(a - idx)
                               ELSE registers[a - idx]
           /\ \A i \in 0..(REG_COUNT - 1) :
                registers'[i] # registers[i] =>
                  /\ op = 15 /\ nn = 101
                  /\ idx + i <= RAM_BYTES - 1
                  /\ registers'[i] = ram[idx + i] ]_vars

\* Fx55 with x = 1 and idx = 65535 was fatal and left the first bytes of
\* RAM as they were
C32_Witness ==
  /\ last.status = "Panic"
  /\ LastOp = 15 /\ LastNN = 85 /\ LastX = 1
  /\ idx_register = 65535
  /\ registers[0] = 255 /\ registers[1] = 240
  /\ ram[0] = 240 /\ ram[1] = 144

\* ---------------------------------------------- decode diagnostics (C33)
\* lines 314-323: the message of the panic of the two last arms of the
\* second match, its text and the values formatted into it
panic_message(opcode, x, y, n) ==
  IF opcode = 0
  THEN [ text |-> "Calling machine language routine, unsupported on this architecture",
         args |-> << >> ]
  ELSE [ text |-> "Invalid instruction, received opcode: {}, x: {}, y: {}, n: {}",
         args |-> << opcode, x, y, n >> ]

\* C33: the diagnostic of a fatal decode failure, of an undecodable word
\* and of an unsupported 0nnn alike, holds the four nibbles of the failing
\* instruction and the program counter (of the instruction or past it).
C33_DecodeDiagnostic ==
  ( /\ last.status = "Panic"
    /\ last.instr # << >>
    /\ ~InTable(last.instr[1], last.instr[2], last.instr[3], last.instr[4]) )
  => LET d == panic_message(last.instr[1], last.instr[2], last.instr[3],
                            last.instr[4])
     IN /\ Len(d.args) >= 4
        /\ SubSeq(d.args, 1, 4) = last.instr
        /\ \E i \in DOMAIN d.args :
             i > 4 /\ d.args[i] \in {last.pc, last.pc + OP_CODE_BYTES}

====
